---- MODULE Spec2Model ----
(***************************************************************************)
(* Model of pyver.py, the version management script: resolution of the     *)
(* per-environment file, reading the current version, the four increment   *)
(* policies and the rewrite of the environment file.                       *)
(*                                                                         *)
(* Text is modelled as a sequence of one-character strings; a file is the  *)
(* sequence of its lines, each line carrying its terminating newline, as   *)
(* Python's iteration over a text file yields them.                        *)
(***************************************************************************)
EXTENDS Integers, Sequences, FiniteSets, TLC

VARIABLES
    fs,               \* path -> file content (sequence of lines) or NoFile
    argv,             \* sys.argv[1:] of the running invocation
    pc,               \* position of the running invocation
    version_type,     \* main's local version_type
    environment,      \* main's local environment
    base_path,        \* main's local base_path
    env_file_path,    \* main's local env_file_path
    current_version,  \* main's local current_version
    new_version,      \* main's local new_version
    exit_code,        \* process exit status, None while running
    err,              \* the exception caught at the top level, None if none
    out,              \* lines printed on standard output
    io,               \* file-system operations performed by the invocation
    stages,           \* stages of main entered by the invocation
    fs0,              \* the file system when the invocation started
    runs,             \* number of invocations started so far
    ret               \* return value of a directly called function

vars == <<fs, argv, pc, version_type, environment, base_path, env_file_path,
          current_version, new_version, exit_code, err, out, io, stages,
          fs0, runs, ret>>

\* an unbound string variable (a command-line word)
None == "None"

\* an unbound text variable, and the None that get_env_file_path returns
Unset == <<>>

\* an absent file, and a file of the given lines
NoFile == [exists |-> FALSE, lines |-> <<>>]

File(lines) == [exists |-> TRUE, lines |-> lines]

\* the exit status: empty while the process runs
NotExited == <<>>

Exit(status) == <<status>>

-----------------------------------------------------------------------------
(* Bounds of the model *)

MaxComp == 11        \* version components range over 0..MaxComp
MaxLines == 2        \* lines of an initial environment file (whole runs)
MaxStoreLines == 3   \* lines of an initial environment file (store calls)
MaxRuns == 2         \* successive invocations against the same files

-----------------------------------------------------------------------------
(* Text primitives: str.startswith, in, str.split, str.strip, int, str *)

SP == " "
NL == "\n"
EQ == "="
HASH == "#"
DOT == "."
DASH == "-"

Whitespace == {SP, NL, "\t", "\r"}

DigitChars == <<"0", "1", "2", "3", "4", "5", "6", "7", "8", "9">>

Digits == {DigitChars[i] : i \in 1..10}

Letters == {"a", "b", "c", "e", "f", "i", "j", "k", "n", "o", "r", "s", "u",
            "v", "x", "y"}

IsDigit(c) == c \in Digits

DigitVal(c) == (CHOOSE i \in 1..10 : DigitChars[i] = c) - 1

\* s.startswith(p)
StartsWith(s, p) == Len(s) >= Len(p) /\ SubSeq(s, 1, Len(p)) = p

\* c in s
Contains(s, c) == \E i \in 1..Len(s) : s[i] = c

\* index of the first occurrence of c in s, 0 if there is none
IndexOf(s, c) ==
    IF Contains(s, c)
    THEN CHOOSE i \in 1..Len(s) : s[i] = c /\ \A j \in 1..(i - 1) : s[j] # c
    ELSE 0

\* s.split(c): every segment between occurrences of c
RECURSIVE Split(_, _)
Split(s, c) ==
    LET i == IndexOf(s, c)
    IN  IF i = 0 THEN <<s>>
        ELSE <<SubSeq(s, 1, i - 1)>> \o Split(SubSeq(s, i + 1, Len(s)), c)

\* s.split(c, 1): split at the first occurrence of c only
Split1(s, c) ==
    LET i == IndexOf(s, c)
    IN  IF i = 0 THEN <<s>>
        ELSE <<SubSeq(s, 1, i - 1), SubSeq(s, i + 1, Len(s))>>

\* s.strip()
Strip(s) ==
    LET keep == {i \in 1..Len(s) : s[i] \notin Whitespace}
    IN  IF keep = {} THEN <<>>
        ELSE LET lo == CHOOSE i \in keep : \A j \in keep : i <= j
                 hi == CHOOSE i \in keep : \A j \in keep : j <= i
             IN  SubSeq(s, lo, hi)

\* int(s) for a non-empty string of decimal digits
RECURSIVE ParseNat(_)
ParseNat(s) ==
    IF s = <<>> THEN 0
    ELSE ParseNat(SubSeq(s, 1, Len(s) - 1)) * 10 + DigitVal(s[Len(s)])

\* str(n) for a natural number
RECURSIVE NatToStr(_)
NatToStr(n) ==
    IF n < 10 THEN <<DigitChars[n + 1]>>
    ELSE NatToStr(n \div 10) \o <<DigitChars[(n % 10) + 1]>>

\* f"{major}.{minor}.{patch}"
FormatVersion(major, minor, patch) ==
    NatToStr(major) \o <<DOT>> \o NatToStr(minor) \o <<DOT>> \o NatToStr(patch)

-----------------------------------------------------------------------------
(* semantic_version.Version(current_version), as used by increment_version *)

IsNumeric(s) == s # <<>> /\ \A i \in 1..Len(s) : IsDigit(s[i])

\* a numeric component: digits, no leading zero
IsComponent(s) == IsNumeric(s) /\ (Len(s) > 1 => s[1] # "0")

\* a pre-release tag: dot-separated non-empty identifiers over [0-9A-Za-z-]
IsPrerelease(s) ==
    /\ \A i \in 1..Len(s) : s[i] \in Digits \cup Letters \cup {DOT, DASH}
    /\ LET ids == Split(s, DOT)
       IN  \A i \in 1..Len(ids) :
               /\ ids[i] # <<>>
               /\ IsNumeric(ids[i]) => IsComponent(ids[i])

Version(s) ==
    LET d == IndexOf(s, DASH)
        core == IF d = 0 THEN s ELSE SubSeq(s, 1, d - 1)
        pre == IF d = 0 THEN <<>> ELSE SubSeq(s, d + 1, Len(s))
        parts == Split(core, DOT)
    IN  IF /\ Len(parts) = 3
           /\ \A i \in 1..3 : IsComponent(parts[i])
           /\ d # 0 => IsPrerelease(pre)
        THEN [ok |-> TRUE, major |-> ParseNat(parts[1]), minor |-> ParseNat(parts[2]),
              patch |-> ParseNat(parts[3]), prerelease |-> pre]
        ELSE [ok |-> FALSE, major |-> 0, minor |-> 0, patch |-> 0, prerelease |-> <<>>]

\* str(version.next_major()): a pre-release of X.0.0 is bumped to X.0.0
next_major(v) ==
    IF v.prerelease # <<>> /\ v.minor = 0 /\ v.patch = 0
    THEN FormatVersion(v.major, 0, 0)
    ELSE FormatVersion(v.major + 1, 0, 0)

\* str(version.next_minor()): a pre-release of X.Y.0 is bumped to X.Y.0
next_minor(v) ==
    IF v.prerelease # <<>> /\ v.patch = 0
    THEN FormatVersion(v.major, v.minor, 0)
    ELSE FormatVersion(v.major, v.minor + 1, 0)

-----------------------------------------------------------------------------
(* Exceptions and return values *)

Raise(type, msg) == [ok |-> FALSE, type |-> type, msg |-> msg]

Return(value) == [ok |-> TRUE, value |-> value]

\* no exception caught, nothing returned yet
Nothing == [ok |-> FALSE, type |-> "None", msg |-> <<>>]

-----------------------------------------------------------------------------
(* increment_version *)

RolloverLimit == 10

\* patch_branch with the rollover tests of the 'auto' branch
patch_branch_reaches(v) ==
    LET patch1 == v.patch + 1
        patch2 == IF patch1 >= RolloverLimit THEN 0 ELSE patch1
        minor1 == IF patch1 >= RolloverLimit THEN v.minor + 1 ELSE v.minor
        minor2 == IF minor1 >= RolloverLimit THEN 0 ELSE minor1
        major1 == IF minor1 >= RolloverLimit THEN v.major + 1 ELSE v.major
    IN  FormatVersion(major1, minor2, patch2)

\* auto_branch with the rollover tests of the 'patch' branch
auto_branch_exceeds(v) ==
    LET patch1 == v.patch + 1
        patch2 == IF patch1 > RolloverLimit THEN 0 ELSE patch1
        minor1 == IF patch1 > RolloverLimit THEN v.minor + 1 ELSE v.minor
        minor2 == IF minor1 > RolloverLimit THEN 0 ELSE minor1
        major1 == IF minor1 > RolloverLimit THEN v.major + 1 ELSE v.major
    IN  FormatVersion(major1, minor2, patch2)

\* the 'patch' branch: rollover when a component exceeds the limit
patch_branch(v) ==
    LET patch1 == v.patch + 1
        patch2 == IF patch1 > RolloverLimit THEN 0 ELSE patch1
        minor1 == IF patch1 > RolloverLimit THEN v.minor + 1 ELSE v.minor
        minor2 == IF minor1 > RolloverLimit THEN 0 ELSE minor1
        major1 == IF minor1 > RolloverLimit THEN v.major + 1 ELSE v.major
    IN  FormatVersion(major1, minor2, patch2)

\* the 'auto' branch: rollover when a component reaches the limit
auto_branch(v) ==
    LET patch1 == v.patch + 1
        patch2 == IF patch1 >= RolloverLimit THEN 0 ELSE patch1
        minor1 == IF patch1 >= RolloverLimit THEN v.minor + 1 ELSE v.minor
        minor2 == IF minor1 >= RolloverLimit THEN 0 ELSE minor1
        major1 == IF minor1 >= RolloverLimit THEN v.major + 1 ELSE v.major
    IN  FormatVersion(major1, minor2, patch2)

increment_version(cur, vtype) ==
    LET version == Version(cur)
    IN  IF ~version.ok THEN Raise("ValueError", <<"Invalid version string: ", cur>>)
        ELSE IF vtype = "major" THEN Return(next_major(version))
        ELSE IF vtype = "minor" THEN Return(next_minor(version))
        ELSE IF vtype = "patch" THEN Return(patch_branch(version))
        ELSE IF vtype = "auto" THEN Return(auto_branch(version))
        ELSE Raise("ValueError", <<"Invalid version type: ", vtype>>)

-----------------------------------------------------------------------------
(* get_env_file_path: f'{base_path}/.env.<env>' is the pair of its parts *)

get_env_file_path(env, base) ==
    IF env = "dev" THEN <<base, "/.env.dev">>
    ELSE IF env = "stg" THEN <<base, "/.env.stg">>
    ELSE IF env = "uat" THEN <<base, "/.env.uat">>
    ELSE IF env = "prod" THEN <<base, "/.env.prod">>
    ELSE Unset

-----------------------------------------------------------------------------
(* read_current_version *)

KEY == <<"s", "e", "r", "v", "i", "c", "e", "_", "v", "e", "r", "s", "i", "o", "n">>

\* os.path.exists(path)
Exists(files, path) == path \in DOMAIN files /\ files[path].exists

\* the value of a service_version line: line.split('=')[1].strip(), 'v' removed
version_of_line(line) ==
    LET version == Strip(Split(line, EQ)[2])
    IN  IF StartsWith(version, <<"v">>) THEN SubSeq(version, 2, Len(version))
        ELSE version

read_current_version(files, path) ==
    IF ~Exists(files, path)
    THEN Raise("FileNotFoundError", <<"Environment file not found: ", path>>)
    ELSE LET f == files[path].lines
             hits == {i \in 1..Len(f) : StartsWith(f[i], KEY \o <<EQ>>)}
         IN  IF hits = {}
             THEN Raise("ValueError", <<"service_version not found in ", path>>)
             ELSE LET first == CHOOSE i \in hits : \A j \in hits : i <= j
                  IN  Return(version_of_line(f[first]))

-----------------------------------------------------------------------------
(* update_env_file: existing_content is an insertion-ordered dict, modelled  *)
(* as a sequence of <<key, value>> pairs with distinct keys                  *)

DictKeys(d) == {d[i][1] : i \in 1..Len(d)}

\* a list of pairs in place of the dict: every assignment appends
DictSet_append(d, k, v) == Append(d, <<k, v>>)

\* d[k] = v: an existing key keeps its position, a new key is appended
DictSet(d, k, v) ==
    IF k \in DictKeys(d)
    THEN [i \in 1..Len(d) |-> IF d[i][1] = k THEN <<k, v>> ELSE d[i]]
    ELSE Append(d, <<k, v>>)

\* the loop over the lines without the test for comment lines
RECURSIVE parse_lines_comments(_, _)
parse_lines_comments(f, d) ==
    IF f = <<>> THEN d
    ELSE LET line == Head(f)
         IN  IF Contains(line, EQ)
             THEN LET kv == Split1(line, EQ)
                  IN  parse_lines_comments(Tail(f), DictSet(d, Strip(kv[1]), Strip(kv[2])))
             ELSE parse_lines_comments(Tail(f), d)

\* the loop over the lines of the file
RECURSIVE parse_lines(_, _)
parse_lines(f, d) ==
    IF f = <<>> THEN d
    ELSE LET line == Head(f)
         IN  IF Contains(line, EQ) /\ ~StartsWith(line, <<HASH>>)
             THEN LET kv == Split1(line, EQ)
                  IN  parse_lines(Tail(f), DictSet(d, Strip(kv[1]), Strip(kv[2])))
             ELSE parse_lines(Tail(f), d)

\* the value stored under service_version
version_value(new) == <<"v">> \o new

\* the lines written back
write_lines(d) == [i \in 1..Len(d) |-> d[i][1] \o <<EQ>> \o d[i][2] \o <<NL>>]

\* the new content of the file
updated_content(f, new) ==
    write_lines(DictSet(parse_lines(f, <<>>), KEY, version_value(new)))

\* result: the return value and the file system afterwards
update_env_file(files, path, new) ==
    IF ~Exists(files, path)
    THEN [ret |-> Raise("FileNotFoundError", <<"Environment file not found: ", path>>),
          fs |-> files]
    ELSE [ret |-> Return(TRUE),
          fs |-> [files EXCEPT ![path] = File(updated_content(files[path].lines, new))]]

-----------------------------------------------------------------------------
(* validate_inputs *)

valid_version_types == <<"patch", "minor", "major", "auto">>

valid_environments == <<"dev", "stg", "uat", "prod">>

InList(x, l) == \E i \in 1..Len(l) : l[i] = x

\* validate_inputs without the check of the environment
validate_inputs_type_only(vtype, env) ==
    IF ~InList(vtype, valid_version_types)
    THEN Raise("ValueError", <<"Invalid version type: ", vtype,
                               ". Must be one of: ", valid_version_types>>)
    ELSE Return(None)

validate_inputs(vtype, env) ==
    IF ~InList(vtype, valid_version_types)
    THEN Raise("ValueError", <<"Invalid version type: ", vtype,
                               ". Must be one of: ", valid_version_types>>)
    ELSE IF ~InList(env, valid_environments)
    THEN Raise("ValueError", <<"Invalid environment: ", env,
                               ". Must be one of: ", valid_environments>>)
    ELSE Return(None)

-----------------------------------------------------------------------------
(* The inputs: environment files, arguments and version strings *)

BASE == "/app"

Path(env) == <<BASE, "/.env." \o env>>

Paths == {Path("dev"), Path("stg"), Path("uat"), Path("prod")}

\* a line 'service_version=<value>'
sv(value) == KEY \o <<EQ>> \o value \o <<NL>>

\* 'v' followed by a formatted version
vtext(major, minor, patch) == <<"v">> \o FormatVersion(major, minor, patch)

FooBar == <<"f", "o", "o", EQ, "b", "a", "r", NL>>

Comment == <<HASH, SP, "c", EQ, "1", NL>>

MainLines ==
    { sv(vtext(0, 9, 10)), sv(vtext(1, 0, 9)), sv(vtext(1, 10, 10)),
      sv(FormatVersion(9, 9, 8)), sv(vtext(1, 0, 0) \o <<DASH, "r", "c">>),
      sv(<<"v", "1", DOT, "2">>), FooBar, Comment }

StoreLines ==
    { sv(vtext(1, 0, 0)), sv(vtext(2, 0, 0)), sv(vtext(1, 2, 3) \o <<EQ, "4">>),
      <<SP>> \o KEY \o <<SP, EQ, "v", "3", NL>>,
      <<"a", EQ, "1", NL>>, <<"a", EQ, "2", NL>>, <<SP, "a", SP, EQ, SP, "1", SP, NL>>,
      <<"b", EQ, "x", EQ, "y", NL>>, Comment, <<"j", "u", "n", "k", NL>>, <<NL>> }

\* the files of at most n lines drawn from a set of lines
FilesOf(lines, n) == {File(l) : l \in UNION {[1..k -> lines] : k \in 0..n}}

StgFile == File(<<sv(vtext(3, 1, 4)), <<"k", EQ, "x", NL>>>>)

\* a file system: the dev file is arbitrary, the stg file fixed or absent
FileSystem(dev, stg) ==
    [p \in Paths |-> IF p = Path("dev") THEN dev
                     ELSE IF p = Path("stg") THEN stg
                     ELSE NoFile]

VersionTypeArgs == {"patch", "minor", "major", "auto", "bump"}

EnvironmentArgs == {"dev", "stg", "uat", "prod", "qa"}

Argvs ==
    {<<t, e, BASE>> : t \in VersionTypeArgs, e \in EnvironmentArgs}
        \cup {<<"patch", "dev">>, <<"patch", "dev", BASE, "extra">>}

Components == 0..MaxComp

IncInputs ==
    {FormatVersion(a, b, c) : a \in Components, b \in Components, c \in Components}
        \cup {FormatVersion(1, 0, 0) \o <<DASH, "r", "c">>,
              FormatVersion(1, 2, 0) \o <<DASH, "r", "c">>,
              FormatVersion(1, 2, 3) \o <<DASH, "r", "c">>,
              <<"1", DOT, "2">>, <<"1", DOT, "0", "2", DOT, "3">>, <<"x">>, <<>>}

StoreVersions == {FormatVersion(0, 0, 0), FormatVersion(1, 0, 1), FormatVersion(2, 10, 11)}

-----------------------------------------------------------------------------
(* main: one action per stage *)

\* the handler without its sys.exit(1): the process ends with status 0
Except_no_exit(e, printed) ==
    /\ err' = e
    /\ out' = Append(printed, <<"Error: ", e.msg>>)
    /\ exit_code' = Exit(0)
    /\ pc' = "exited"

\* except Exception as e: print the message and exit with status 1
Except(e, printed) ==
    /\ err' = e
    /\ out' = Append(printed, <<"Error: ", e.msg>>)
    /\ exit_code' = Exit(1)
    /\ pc' = "exited"

\* the argument count check and the parsing of sys.argv
ParseArgs ==
    /\ pc = "start"
    /\ IF Len(argv) # 3
       THEN /\ out' = out \o << <<"Usage: python pyver.py <version_type> <environment> <base_path>">>,
                               <<"version_type: patch, minor, major, auto">>,
                               <<"environment: dev, stg, uat, prod">> >>
            /\ exit_code' = Exit(1)
            /\ pc' = "exited"
            /\ UNCHANGED <<version_type, environment, base_path>>
       ELSE /\ version_type' = argv[1]
            /\ environment' = argv[2]
            /\ base_path' = argv[3]
            /\ pc' = "validate"
            /\ UNCHANGED <<out, exit_code>>
    /\ UNCHANGED <<fs, argv, env_file_path, current_version, new_version, err,
                   io, stages, fs0, runs, ret>>

\* validate_inputs(version_type, environment)
Validate ==
    /\ pc = "validate"
    /\ stages' = Append(stages, "validate")
    /\ LET r == validate_inputs(version_type, environment)
       IN  IF r.ok
           THEN /\ pc' = "resolve"
                /\ UNCHANGED <<err, out, exit_code>>
           ELSE Except(r, out)
    /\ UNCHANGED <<fs, argv, version_type, environment, base_path, env_file_path,
                   current_version, new_version, io, fs0, runs, ret>>

\* get_env_file_path, the check of its result and the three status lines
Resolve ==
    /\ pc = "resolve"
    /\ stages' = Append(stages, "resolve")
    /\ LET p == get_env_file_path(environment, base_path)
       IN  /\ env_file_path' = p
           /\ IF p = Unset
              THEN Except(Raise("ValueError",
                                <<"Unable to determine env file path for environment: ",
                                  environment>>), out)
              ELSE /\ pc' = "read"
                   /\ out' = out \o << <<"Processing version update for ", environment>>,
                                      <<"Environment file: ", p>>,
                                      <<"Version type: ", version_type>> >>
                   /\ UNCHANGED <<err, exit_code>>
    /\ UNCHANGED <<fs, argv, version_type, environment, base_path,
                   current_version, new_version, io, fs0, runs, ret>>

\* the file operations of read_current_version
read_io(files, path) ==
    IF Exists(files, path) THEN << <<"exists", path>>, <<"open_r", path>> >>
    ELSE << <<"exists", path>> >>

\* current_version = read_current_version(env_file_path)
Read ==
    /\ pc = "read"
    /\ stages' = Append(stages, "read")
    /\ io' = io \o read_io(fs, env_file_path)
    /\ LET r == read_current_version(fs, env_file_path)
       IN  IF r.ok
           THEN /\ current_version' = r.value
                /\ out' = Append(out, <<"Current version: v", r.value>>)
                /\ pc' = "increment"
                /\ UNCHANGED <<err, exit_code>>
           ELSE /\ Except(r, out)
                /\ UNCHANGED current_version
    /\ UNCHANGED <<fs, argv, version_type, environment, base_path, env_file_path,
                   new_version, fs0, runs, ret>>

\* new_version = increment_version(current_version, version_type)
Increment ==
    /\ pc = "increment"
    /\ stages' = Append(stages, "increment")
    /\ LET r == increment_version(current_version, version_type)
       IN  IF r.ok
           THEN /\ new_version' = r.value
                /\ out' = Append(out, <<"New version: v", r.value>>)
                /\ pc' = "update"
                /\ UNCHANGED <<err, exit_code>>
           ELSE /\ Except(r, out)
                /\ UNCHANGED new_version
    /\ UNCHANGED <<fs, argv, version_type, environment, base_path, env_file_path,
                   current_version, io, fs0, runs, ret>>

\* the file operations of update_env_file
update_io(files, path) ==
    IF Exists(files, path)
    THEN << <<"exists", path>>, <<"open_r", path>>, <<"open_w", path>> >>
    ELSE << <<"exists", path>> >>

\* if update_env_file(env_file_path, new_version): ... and the normal exit
Update ==
    /\ pc = "update"
    /\ stages' = Append(stages, "write")
    /\ io' = io \o update_io(fs, env_file_path)
    /\ LET r == update_env_file(fs, env_file_path, new_version)
       IN  /\ fs' = r.fs
           /\ IF r.ret.ok
              THEN /\ out' = out \o << <<"Updated ", env_file_path, " with version v",
                                        new_version>>,
                                      <<"Version successfully updated from v",
                                        current_version, " to v", new_version>> >>
                   /\ exit_code' = Exit(0)
                   /\ pc' = "exited"
                   /\ UNCHANGED err
              ELSE Except(r.ret, out)
    /\ UNCHANGED <<argv, version_type, environment, base_path, env_file_path,
                   current_version, new_version, fs0, runs, ret>>

\* the next invocation of the script, against the files the last one left
Invoke ==
    /\ pc = "exited"
    /\ runs < MaxRuns
    /\ runs' = runs + 1
    /\ argv' \in Argvs
    /\ pc' = "start"
    /\ version_type' = None
    /\ environment' = None
    /\ base_path' = None
    /\ env_file_path' = Unset
    /\ current_version' = Unset
    /\ new_version' = Unset
    /\ exit_code' = NotExited
    /\ err' = Nothing
    /\ out' = <<>>
    /\ io' = <<>>
    /\ stages' = <<>>
    /\ fs0' = fs
    /\ UNCHANGED <<fs, ret>>

Init ==
    /\ fs \in {FileSystem(dev, stg) :
                   dev \in FilesOf(MainLines, MaxLines) \cup {NoFile},
                   stg \in {StgFile, NoFile}}
    /\ fs0 = fs
    /\ argv \in Argvs
    /\ pc = "start"
    /\ version_type = None
    /\ environment = None
    /\ base_path = None
    /\ env_file_path = Unset
    /\ current_version = Unset
    /\ new_version = Unset
    /\ exit_code = NotExited
    /\ err = Nothing
    /\ out = <<>>
    /\ io = <<>>
    /\ stages = <<>>
    /\ runs = 1
    /\ ret = Nothing

Next ==
    \/ ParseArgs
    \/ Validate
    \/ Resolve
    \/ Read
    \/ Increment
    \/ Update
    \/ Invoke

Spec == Init /\ [][Next]_vars

-----------------------------------------------------------------------------
(* increment_version called directly on every input *)

CallIncrement ==
    /\ pc = "call_increment"
    /\ ret' = increment_version(current_version, version_type)
    /\ pc' = "returned"
    /\ UNCHANGED <<fs, argv, version_type, environment, base_path, env_file_path,
                   current_version, new_version, exit_code, err, out, io, stages,
                   fs0, runs>>

InitInc ==
    /\ current_version \in IncInputs
    /\ version_type \in VersionTypeArgs
    /\ pc = "call_increment"
    /\ fs = FileSystem(NoFile, NoFile)
    /\ fs0 = fs
    /\ argv = <<>>
    /\ environment = None
    /\ base_path = None
    /\ env_file_path = Unset
    /\ new_version = Unset
    /\ exit_code = NotExited
    /\ err = Nothing
    /\ out = <<>>
    /\ io = <<>>
    /\ stages = <<>>
    /\ runs = 1
    /\ ret = Nothing

NextInc == CallIncrement

SpecInc == InitInc /\ [][NextInc]_vars

-----------------------------------------------------------------------------
(* update_env_file and read_current_version called directly on every file *)

CallUpdate ==
    /\ pc = "call_update"
    /\ stages' = Append(stages, "update")
    /\ LET r == update_env_file(fs, env_file_path, new_version)
       IN  /\ fs' = r.fs
           /\ ret' = r.ret
    /\ pc' = "call_read"
    /\ UNCHANGED <<argv, version_type, environment, base_path, env_file_path,
                   current_version, new_version, exit_code, err, out, io, fs0, runs>>

CallRead ==
    /\ pc = "call_read"
    /\ stages' = Append(stages, "read")
    /\ ret' = read_current_version(fs, env_file_path)
    /\ pc' = "returned"
    /\ UNCHANGED <<fs, argv, version_type, environment, base_path, env_file_path,
                   current_version, new_version, exit_code, err, out, io, fs0, runs>>

InitStore ==
    /\ fs \in {FileSystem(dev, NoFile) :
                   dev \in FilesOf(StoreLines, MaxStoreLines) \cup {NoFile}}
    /\ fs0 = fs
    /\ env_file_path = Path("dev")
    /\ new_version \in StoreVersions
    /\ pc \in {"call_update", "call_read"}
    /\ argv = <<>>
    /\ version_type = None
    /\ environment = None
    /\ base_path = None
    /\ current_version = Unset
    /\ exit_code = NotExited
    /\ err = Nothing
    /\ out = <<>>
    /\ io = <<>>
    /\ stages = <<>>
    /\ runs = 1
    /\ ret = Nothing

NextStore == CallUpdate \/ CallRead

SpecStore == InitStore /\ [][NextStore]_vars

-----------------------------------------------------------------------------
(* Properties of increment_version, checked under SpecInc *)

\* the 'patch' rule on integers: a component above 10 resets and carries
PatchRule(M, m, p) ==
    LET p1 == p + 1
        p2 == IF p1 > 10 THEN 0 ELSE p1
        m1 == IF p1 > 10 THEN m + 1 ELSE m
        m2 == IF m1 > 10 THEN 0 ELSE m1
        M1 == IF m1 > 10 THEN M + 1 ELSE M
    IN  <<M1, m2, p2>>

\* the 'auto' rule on integers: a component at or above 10 resets and carries
AutoRule(M, m, p) ==
    LET p1 == p + 1
        p2 == IF p1 >= 10 THEN 0 ELSE p1
        m1 == IF p1 >= 10 THEN m + 1 ELSE m
        m2 == IF m1 >= 10 THEN 0 ELSE m1
        M1 == IF m1 >= 10 THEN M + 1 ELSE M
    IN  <<M1, m2, p2>>

Text(t) == FormatVersion(t[1], t[2], t[3])

Returned(vtype) == pc = "returned" /\ version_type = vtype

\* the call increment_version(a, vtype) has returned b
Maps(vtype, a, b) == (Returned(vtype) /\ current_version = a) => ret = Return(b)

\* C1: under policy 'patch' every version (M,m,p) is mapped to p+1 with a
\* rollover of patch into minor and then of minor into major, each when the
\* component exceeds 10; the five documented examples are instances.
C1_PatchRollover ==
    /\ \A M \in Components, m \in Components, p \in Components :
           Maps("patch", Text(<<M, m, p>>), Text(PatchRule(M, m, p)))
    /\ Maps("patch", <<"1", DOT, "0", DOT, "9">>, <<"1", DOT, "0", DOT, "1", "0">>)
    /\ Maps("patch", <<"1", DOT, "0", DOT, "1", "0">>, <<"1", DOT, "1", DOT, "0">>)
    /\ Maps("patch", <<"1", DOT, "1", DOT, "1", "0">>, <<"1", DOT, "2", DOT, "0">>)
    /\ Maps("patch", <<"1", DOT, "1", "0", DOT, "1", "0">>, <<"2", DOT, "0", DOT, "0">>)
    /\ Maps("patch", <<"1", "0", DOT, "1", "0", DOT, "1", "0">>,
                     <<"1", "1", DOT, "0", DOT, "0">>)

\* 1.10.10 has been incremented under 'patch' and both rollovers took place
C1_Witness ==
    /\ Returned("patch")
    /\ current_version = <<"1", DOT, "1", "0", DOT, "1", "0">>
    /\ ret = Return(<<"2", DOT, "0", DOT, "0">>)

-----------------------------------------------------------------------------
(* Properties of the environment file store, checked under SpecStore *)

DevFile(files) == files[Path("dev")].lines

\* update_env_file has been called on an existing file and has returned
Updated == "update" \in {stages[i] : i \in 1..Len(stages)} /\ fs0[Path("dev")].exists

AfterUpdate == pc = "call_read" /\ Updated

\* read_current_version has returned
AfterRead == pc = "returned" /\ stages[Len(stages)] = "read"

\* the lines of a file that hold a key=value pair
IsPairLine(line) == Contains(line, EQ) /\ ~StartsWith(line, <<HASH>>)

\* the key and the value of a pair line, surrounding whitespace removed
KeyOf(line) == Strip(SubSeq(line, 1, IndexOf(line, EQ) - 1))

ValueOf(line) == Strip(SubSeq(line, IndexOf(line, EQ) + 1, Len(line)))

PairsOf(f) == {<<KeyOf(f[i]), ValueOf(f[i])>> : i \in {j \in 1..Len(f) : IsPairLine(f[j])}}

\* C4 as stated: every key=value pair of the prior file whose key is not
\* service_version is still in the file after update_env_file, repeated keys
\* included.
C4_PairsPreserved ==
    AfterUpdate =>
        \A pr \in PairsOf(DevFile(fs0)) : pr[1] # KEY => pr \in PairsOf(DevFile(fs))

\* C5: after update_env_file(path, V) on an existing file, whatever its
\* lines, read_current_version(path) returns exactly V.
C5_RoundTrip == (AfterRead /\ Updated) => ret = Return(new_version)

\* the round trip on a file that held two service_version lines
C5_Witness ==
    /\ AfterRead /\ Updated
    /\ DevFile(fs0) = <<sv(vtext(1, 0, 0)), sv(vtext(2, 0, 0))>>
    /\ ret = Return(new_version)

\* the first line that begins with 'service_version=', 0 if there is none
FirstVersionLine(f) ==
    LET hits == {i \in 1..Len(f) : StartsWith(f[i], KEY \o <<EQ>>)}
    IN  IF hits = {} THEN 0 ELSE CHOOSE i \in hits : \A j \in hits : i <= j

\* the whole of a line after its first '=', trimmed, one leading 'v' removed
WholeValue(line) ==
    LET value == ValueOf(line)
    IN  IF value # <<>> /\ value[1] = "v" THEN SubSeq(value, 2, Len(value)) ELSE value

\* C8 as stated: the result of read_current_version is the whole of the first
\* 'service_version=' line after its first '=' (further '=' included),
\* trimmed and without one leading 'v'; without such a line the call fails
\* with the missing-key error.
C8_FirstLineWholeValue ==
    (AfterRead /\ fs[Path("dev")].exists) =>
        LET f == DevFile(fs)
            n == FirstVersionLine(f)
        IN  IF n = 0
            THEN ~ret.ok /\ ret.type = "ValueError"
            ELSE ret = Return(WholeValue(f[n]))

\* the distinct keys of the pair lines, in the order of first occurrence
RECURSIVE FirstKeys(_, _)
FirstKeys(f, seen) ==
    IF f = <<>> THEN seen
    ELSE IF IsPairLine(Head(f)) /\ \A i \in 1..Len(seen) : seen[i] # KeyOf(Head(f))
         THEN FirstKeys(Tail(f), Append(seen, KeyOf(Head(f))))
         ELSE FirstKeys(Tail(f), seen)

-----------------------------------------------------------------------------
(* Properties of whole invocations, checked under Spec *)

StageSet == {stages[i] : i \in 1..Len(stages)}

IoOps == {io[i][1] : i \in 1..Len(io)}

\* the order in which main runs its stages
Pipeline == <<"validate", "resolve", "read", "increment", "write">>

\* the file of C3: 'service_version=v0.9.10' and 'foo=bar'
C3_Before ==
    File(<< KEY \o <<EQ, "v", "0", DOT, "9", DOT, "1", "0", NL>>,
            <<"f", "o", "o", EQ, "b", "a", "r", NL>> >>)

\* the tool has run with policy 'patch' on the file of C3
C3_Ran ==
    /\ pc = "exited"
    /\ argv = <<"patch", "dev", BASE>>
    /\ fs0[Path("dev")] = C3_Before

\* C3 as stated: the run leaves 'service_version=v1.0.0' and 'foo=bar' and
\* exits with status 0.
C3_EndToEnd_v1_0_0 ==
    C3_Ran =>
        /\ fs[Path("dev")] =
               File(<< KEY \o <<EQ, "v", "1", DOT, "0", DOT, "0", NL>>,
                       <<"f", "o", "o", EQ, "b", "a", "r", NL>> >>)
        /\ exit_code = Exit(0)

\* C3 amended: the run leaves 'service_version=v0.10.0' and 'foo=bar', in
\* that order, and exits with status 0 (patch 11 exceeds 10 and rolls over;
\* minor 10 does not exceed 10).
C3_EndToEnd_v0_10_0 ==
    C3_Ran =>
        /\ fs[Path("dev")] =
               File(<< KEY \o <<EQ, "v", "0", DOT, "1", "0", DOT, "0", NL>>,
                       <<"f", "o", "o", EQ, "b", "a", "r", NL>> >>)
        /\ exit_code = Exit(0)

\* the run of C3 has written the file and exited
C3_Witness == C3_Ran /\ exit_code = Exit(0) /\ "open_w" \in IoOps

\* the invocation has three arguments, one of them outside its allowed set
InvalidInput ==
    /\ Len(argv) = 3
    /\ \/ argv[1] \notin {"major", "minor", "patch", "auto"}
       \/ argv[2] \notin {"dev", "stg", "uat", "prod"}

\* the message names the value and the allowed set
Names(msg, value, allowed) ==
    /\ Len(msg) = 4
    /\ msg[2] = value
    /\ {msg[4][i] : i \in 1..Len(msg[4])} = allowed

\* C6: with a policy outside {major, minor, patch, auto} or an environment
\* outside {dev, stg, uat, prod} the run fails with an invalid-input error
\* naming the offending value and the allowed set, before any path is
\* resolved and before any file is checked, opened, read or written.
C6_InvalidInputBeforeIO ==
    \/ ~InvalidInput
    \/ pc \in {"start", "validate"} /\ io = <<>> /\ env_file_path = Unset
    \/ /\ pc = "exited"
       /\ exit_code = Exit(1)
       /\ err.type = "ValueError"
       /\ \/ /\ argv[1] \notin {"major", "minor", "patch", "auto"}
             /\ Names(err.msg, argv[1], {"major", "minor", "patch", "auto"})
          \/ /\ argv[1] \in {"major", "minor", "patch", "auto"}
             /\ Names(err.msg, argv[2], {"dev", "stg", "uat", "prod"})
       /\ io = <<>>
       /\ env_file_path = Unset
       /\ stages = <<"validate">>
       /\ fs = fs0

\* the unknown environment 'qa' has been rejected in a directory that holds
\* environment files
C6_Witness ==
    /\ pc = "exited"
    /\ argv = <<"patch", "qa", BASE>>
    /\ fs[Path("dev")].exists
    /\ err.type = "ValueError"
    /\ io = <<>>

\* C7: a failure in a stage before the write ends the run there: no later
\* stage runs, the write stage is not entered, no file is created or changed
\* and the exit status is 1; the exit status is 0 only when the write stage
\* has completed.
C7_FailureAborts ==
    /\ stages = SubSeq(Pipeline, 1, Len(stages))
    /\ (pc = "exited" /\ "write" \notin StageSet) =>
           /\ exit_code = Exit(1)
           /\ fs = fs0
           /\ "open_w" \notin IoOps
           /\ Len(argv) = 3 => ~err.ok /\ err.type \in {"ValueError", "FileNotFoundError"}
    /\ exit_code = Exit(0) =>
           /\ pc = "exited"
           /\ stages = Pipeline
           /\ err = Nothing
           /\ io[Len(io)] = <<"open_w", env_file_path>>
    /\ exit_code = NotExited <=> pc # "exited"

\* a run has failed in the read stage, on a file without service_version line
C7_Witness ==
    /\ pc = "exited"
    /\ stages = <<"validate", "resolve", "read">>
    /\ fs0[Path("dev")] = File(<<FooBar>>)
    /\ argv[2] = "dev"
    /\ exit_code = Exit(1)

\* (major, minor, patch) of a version string
Triple(text) == LET v == Version(text) IN <<v.major, v.minor, v.patch>>

\* lexicographic order on triples
LexLess(a, b) ==
    \/ a[1] < b[1]
    \/ a[1] = b[1] /\ a[2] < b[2]
    \/ a[1] = b[1] /\ a[2] = b[2] /\ a[3] < b[3]

\* C10 as stated: a successful invocation, under any policy, leaves in the
\* file a version strictly greater, in lexicographic order on (major, minor,
\* patch), than the version it read.
C10_StrictlyIncreases ==
    (pc = "exited" /\ exit_code = Exit(0)) =>
        LET after == read_current_version(fs, env_file_path)
        IN  /\ after.ok
            /\ Version(after.value).ok
            /\ LexLess(Triple(current_version), Triple(after.value))

====
